---- MODULE Spec2Model ----
(***************************************************************************)
(* Model of src/main.go: the batch pipeline that enriches cloud-region     *)
(* rows with an Electricity Maps zone and a WattTime region.               *)
(*                                                                         *)
(* One behaviour is one or more runs of the program (main), the second run *)
(* reading what the first run printed.  The remote services, the file      *)
(* system and standard output are the environment: every answer they can   *)
(* give is drawn with \E in the action that makes the call.                *)
(***************************************************************************)
EXTENDS Integers, Sequences, FiniteSets, TLC

(***************************************************************************)
(* Bounds of the model.                                                    *)
(***************************************************************************)
\* data rows of an input file
MaxRows == 2
\* data rows of the input file of a run whose output is fed back in
MaxRerunRows == 1
\* lines the csv.Writer's bufio buffer holds before it has to flush to
\* standard output (the library buffers 4096 bytes; the model counts lines)
BufSize == 1
\* runs of the program in one behaviour (the second reads the first's output)
MaxRuns == 2

(***************************************************************************)
(* Constants of the program.                                               *)
(***************************************************************************)
awsCloudProvider == "Amazon Web Services"
electricityMapsAPIKeyEnvVar == "ELECTRICITY_MAPS_API_KEY"
wattTimeUserEnvVar == "WATT_TIME_USER"
wattTimePasswordEnvVar == "WATT_TIME_PASSWORD"
StatusOK == 200
StatusNotFound == 404

header ==
  << "cloud_provider", "cloud_region", "location", "location_override",
     "location_source", "location_type", "latitude", "longitude",
     "electricity_maps_zone", "watt_time_region" >>

(***************************************************************************)
(* Errors.  A Go error value is a record; NoErr is nil.                    *)
(***************************************************************************)
NoErr == [kind |-> "nil", arg |-> ""]
Err(k, a) == [kind |-> k, arg |-> a]
IsErr(e) == e.kind # "nil"

\* fmt.Errorf("%s env var must be set", name)
EnvVarError(name) == Err("env var must be set", name)

\* csv.ErrFieldCount is a sentinel made by errors.New; csv.Reader.Read never
\* returns it bare: it returns a *csv.ParseError whose Err field is the sentinel.
ErrFieldCount == Err("errorString", "wrong number of fields")
ParseError(e) == Err("ParseError", e.arg)
EOF == Err("errorString", "EOF")

(***************************************************************************)
(* Coordinates.  A float64 is an integer count of 10^-7 degrees; a         *)
(* coordinate text is empty, not a number, or a decimal with dec decimals. *)
(* The %f verb prints 6 decimals, that is, a multiple of Unit.             *)
(***************************************************************************)
Unit == 10

EmptyText == [kind |-> "empty", v |-> 0, dec |-> 0]
BadText == [kind |-> "bad", v |-> 0, dec |-> 0]
NumText(x, d) == [kind |-> "num", v |-> x, dec |-> d]

\* strconv.ParseFloat(s, 64)
ParseFloat(t) ==
  IF t.kind = "num" THEN [val |-> t.v, err |-> NoErr]
  ELSE [val |-> 0, err |-> Err("NumError", "invalid syntax")]

\* round x to the nearest multiple of Unit, ties to the even multiple
RoundUnit(x) ==
  LET q == x \div Unit
      r == x % Unit
  IN  IF 2 * r < Unit THEN q * Unit
      ELSE IF 2 * r > Unit THEN (q + 1) * Unit
      ELSE IF q % 2 = 0 THEN q * Unit ELSE (q + 1) * Unit

\* fmt.Sprintf("%f", x)
FormatF(x) == NumText(RoundUnit(x), 6)

(***************************************************************************)
(* Strings that the program takes apart are sequences of characters.       *)
(***************************************************************************)
RECURSIVE Split(_, _)
\* strings.Split(s, sep) for a one-character sep: the pieces between the seps
Split(s, sep) ==
  IF \A k \in 1..Len(s) : s[k] # sep THEN << s >>
  ELSE LET k == CHOOSE j \in 1..Len(s) :
                  s[j] = sep /\ \A m \in 1..(j - 1) : s[m] # sep
       IN  << SubSeq(s, 1, k - 1) >> \o Split(SubSeq(s, k + 1, Len(s)), sep)

\* strings.HasSuffix(s, c) for a one-character c
HasSuffix(s, c) == Len(s) > 0 /\ s[Len(s)] = c

\* strings.Replace(s, c, "", 1): s without the first c
ReplaceFirst(s, c) ==
  IF \A k \in 1..Len(s) : s[k] # c THEN s
  ELSE LET k == CHOOSE j \in 1..Len(s) :
                  s[j] = c /\ \A m \in 1..(j - 1) : s[m] # c
       IN  SubSeq(s, 1, k - 1) \o SubSeq(s, k + 1, Len(s))

\* parseAWSLocation: split[1] of the Go slice is split[2] here; with no "("
\* in input the slice has one element and the index is out of range.
parseAWSLocation(input) ==
  LET split == Split(input, "(")
  IN  IF Len(split) > 0 /\ Len(split) < 2 THEN [panic |-> TRUE, val |-> << >>]
      ELSE LET location == IF Len(split) > 0 THEN split[2] ELSE << >>
           IN  [panic |-> FALSE,
                val |-> IF HasSuffix(location, ")")
                        THEN ReplaceFirst(location, ")")
                        ELSE location]

(***************************************************************************)
(* The remote services.  A response is what http.Client.Do and the reading *)
(* of the body give: a transport error, or a status and a body that may be *)
(* unreadable, may not be JSON, or is the JSON value `value`.              *)
(***************************************************************************)
Resp(ne, st, re, ok, val) ==
  [neterr |-> ne, status |-> st, readerr |-> re, valid |-> ok, value |-> val]

\* a string-valued endpoint (zone, token, region)
StringResponses(vals) ==
  { Resp(TRUE, 0, FALSE, FALSE, "") }
    \cup { Resp(FALSE, st, FALSE, FALSE, "") : st \in {StatusNotFound, 500} }
    \cup { Resp(FALSE, StatusOK, TRUE, FALSE, ""),
           Resp(FALSE, StatusOK, FALSE, FALSE, "") }
    \cup { Resp(FALSE, StatusOK, FALSE, TRUE, v) : v \in vals }

ZoneResponses == StringResponses({"US-VA"})
RegionResponses == StringResponses({"PJM_DC"})
LoginResponses == StringResponses({"token"})

\* the geocoder answers a JSON array of places with lat and lon strings
Place(la, lo) == [Lat |-> la, Lon |-> lo]
PlaceLists ==
  { << >>,
    << Place(NumText(375, 7), NumText(-786, 7)) >>,
    << Place(BadText, NumText(-786, 7)) >>,
    << Place(NumText(375, 7), BadText) >>,
    << Place(NumText(375, 7), NumText(-786, 7)),
       Place(NumText(12, 7), NumText(12, 7)) >> }
GeoResponses ==
  { Resp(TRUE, 0, FALSE, FALSE, << >>),
    Resp(FALSE, 500, FALSE, FALSE, << >>),
    Resp(FALSE, StatusOK, TRUE, FALSE, << >>),
    Resp(FALSE, StatusOK, FALSE, FALSE, << >>) }
    \cup { Resp(FALSE, StatusOK, FALSE, TRUE, ps) : ps \in PlaceLists }

\* fmt.Errorf("expected %d response got %d", http.StatusOK, resp.StatusCode)
StatusError(st) == Err("unexpected status", IF st = StatusNotFound THEN "404" ELSE "other")
Result(v, e) == [val |-> v, err |-> e]

\* every status but 200 taken as no coverage
getElectricityMapsZoneAnyStatusEmpty(resp) ==
  IF resp.neterr THEN Result("", Err("transport", ""))
  ELSE IF resp.status # StatusOK THEN Result("", NoErr)
  ELSE IF resp.readerr THEN Result("", Err("read", ""))
  ELSE IF ~resp.valid THEN Result("", Err("json", ""))
  ELSE Result(resp.value, NoErr)
\* getElectricityMapsZone, from the response of client.Do on
getElectricityMapsZone(resp) ==
  IF resp.neterr THEN Result("", Err("transport", ""))
  ELSE IF resp.status = StatusNotFound THEN Result("", NoErr)
  ELSE IF resp.status # StatusOK THEN Result("", StatusError(resp.status))
  ELSE IF resp.readerr THEN Result("", Err("read", ""))
  ELSE IF ~resp.valid THEN Result("", Err("json", ""))
  ELSE Result(resp.value, NoErr)

\* getGeolocation, from the response of client.Do on
getGeolocation(resp) ==
  LET fail(e) == [lat |-> 0, lon |-> 0, err |-> e]
  IN  IF resp.neterr THEN fail(Err("transport", ""))
      ELSE IF resp.status # StatusOK THEN fail(StatusError(resp.status))
      ELSE IF resp.readerr THEN fail(Err("read", ""))
      ELSE IF ~resp.valid THEN fail(Err("json", ""))
      ELSE IF Len(resp.value) = 1
        THEN LET la == ParseFloat(resp.value[1].Lat)
                 lo == ParseFloat(resp.value[1].Lon)
             IN  IF IsErr(la.err) THEN fail(la.err)
                 ELSE IF IsErr(lo.err) THEN fail(lo.err)
                 ELSE [lat |-> la.val, lon |-> lo.val, err |-> NoErr]
        ELSE [lat |-> 0, lon |-> 0, err |-> NoErr]

\* getWattTimeAccessToken: a body that cannot be read or decoded returns "", nil
getWattTimeAccessToken(resp) ==
  IF resp.neterr THEN Result("", Err("transport", ""))
  ELSE IF resp.status # StatusOK THEN Result("", StatusError(resp.status))
  ELSE IF resp.readerr THEN Result("", NoErr)
  ELSE IF ~resp.valid THEN Result("", NoErr)
  ELSE Result(resp.value, NoErr)

\* 404 taken as an error like every status but 200
getWattTimeRegionNotFoundFatal(resp) ==
  IF resp.neterr THEN Result("", Err("transport", ""))
  ELSE IF resp.status # StatusOK THEN Result("", StatusError(resp.status))
  ELSE IF resp.readerr THEN Result("", NoErr)
  ELSE IF ~resp.valid THEN Result("", NoErr)
  ELSE Result(resp.value, NoErr)
\* getWattTimeRegion: a body that cannot be read or decoded returns "", nil
getWattTimeRegion(resp) ==
  IF resp.neterr THEN Result("", Err("transport", ""))
  ELSE IF resp.status = StatusNotFound THEN Result("", NoErr)
  ELSE IF resp.status # StatusOK THEN Result("", StatusError(resp.status))
  ELSE IF resp.readerr THEN Result("", NoErr)
  ELSE IF ~resp.valid THEN Result("", NoErr)
  ELSE Result(resp.value, NoErr)

(***************************************************************************)
(* Input files.  A file is its lines, line 1 the header; a data line is    *)
(* the tuple of its fields (record[k] of the Go code is record[k + 1]).    *)
(***************************************************************************)
Row(p, l, o, la, lo, z, w) ==
  << p, "region", l, o, "manual", "city", la, lo, z, w >>

\* rows without both coordinates, which are geocoded
GeoRows ==
  { Row(awsCloudProvider, << "E", " ", "(", "V", ")" >>, << >>,
        EmptyText, EmptyText, "", ""),
    Row(awsCloudProvider, << "O", "h" >>, << >>, EmptyText, EmptyText, "", ""),
    Row(awsCloudProvider, << "E", " ", "(", "V", ")" >>, << "P" >>,
        EmptyText, EmptyText, "DE", ""),
    Row("Google Cloud", << "E", " ", "(", "V", ")" >>, << >>,
        NumText(17, 7), EmptyText, "", "CAISO") }
\* rows with coordinates, without and with a zone and a region
CoordRows ==
  { Row("Google Cloud", << "O", "h" >>, << >>,
        NumText(17, 7), NumText(-23, 7), zw[1], zw[2]) :
      zw \in { << "", "" >>, << "DE", "CAISO" >> } }
\* rows whose coordinates are not numbers
BadCoordRows ==
  { Row("Google Cloud", << "O", "h" >>, << >>, BadText, NumText(-23, 7), "", ""),
    Row("Google Cloud", << "O", "h" >>, << >>, NumText(17, 7), BadText, "", "") }
\* a row of 9 fields
ShortRow ==
  << "Google Cloud", "region", << "O", "h" >>, << >>, "manual", "city",
     EmptyText, EmptyText, "" >>

Rows == GeoRows \cup CoordRows \cup BadCoordRows \cup { ShortRow }

SeqsUpTo(S, n) == UNION { [1..k -> S] : k \in 0..n }
\* the empty file, and a header followed by up to n rows
Files(n) == { << >> } \cup { << header >> \o rows : rows \in SeqsUpTo(Rows, n) }

\* the process environment and command line
Envs ==
  [ apiKey : { "", "key" }, user : { "", "user" }, password : { "", "pw" },
    args : { << >>, << "regions.csv" >> } ]

(***************************************************************************)
(* State.                                                                  *)
(***************************************************************************)
VARIABLES
  run,      \* which run of the program this is
  pc,       \* where mainWithError is
  env,      \* environment variables and arguments
  err,      \* the error mainWithError returned (main prints it), or the panic
  token,    \* wattTimeAccessToken
  file,     \* the lines of the file at os.Args[1]
  rd,       \* the line csv.Reader.Read returns next
  regions,  \* []Region
  prov,     \* per region: the input row it was read from, where each value came from
  i,        \* index of the enrich loop
  w,        \* index of the write loop
  buf,      \* lines in the csv.Writer's buffer
  stdout,   \* lines written to standard output
  log,      \* the requests made and files opened, in order
  prev      \* what the previous run printed, how it resolved each row, and
            \* whether all runs so far decoded every body and read every line

vars ==
  << run, pc, env, err, token, file, rd, regions, prov, i, w, buf, stdout,
     log, prev >>

\* one remote request or file open: what was asked (for which row, with which
\* text or coordinates) and what came back (a transport or I/O error, or a
\* status and, with status 200, whether the body failed to be read or decoded)
Ev(op, row, q, la, lo, resp) ==
  [op |-> op, row |-> row, q |-> q, lat |-> la, lon |-> lo,
   neterr |-> resp.neterr, status |-> resp.status,
   bad |-> /\ ~resp.neterr
           /\ resp.status = StatusOK
           /\ (resp.readerr \/ ~resp.valid)]

NoPrev == [out |-> << >>, prov |-> << >>, clean |-> TRUE]

\* the state when the program starts on the file f
Start(f) ==
  /\ run = 1
  /\ pc = "start"
  /\ env \in Envs
  /\ err = NoErr
  /\ token = ""
  /\ file = f
  /\ rd = 1
  /\ regions = << >>
  /\ prov = << >>
  /\ i = 1
  /\ w = 1
  /\ buf = << >>
  /\ stdout = << >>
  /\ log = << >>
  /\ prev = NoPrev

Init == \E f \in Files(MaxRows) : Start(f)
InitRerun == \E f \in Files(MaxRerunRows) : Start(f)

\* mainWithError returns e
Abort(e) == pc' = "aborted" /\ err' = e
\* the runtime panics with an index out of range at the expression `what`
Panic(what) == pc' = "panicked" /\ err' = Err("panic", what)

\* mainWithError, lines 51-63: the three environment variables
CheckEnv ==
  /\ pc = "start"
  /\ IF env.apiKey = "" THEN Abort(EnvVarError(env.apiKey))
     ELSE IF env.user = "" THEN Abort(EnvVarError(wattTimeUserEnvVar))
     ELSE IF env.password = "" THEN Abort(EnvVarError(wattTimePasswordEnvVar))
     ELSE pc' = "login" /\ err' = err
  /\ UNCHANGED << run, env, token, file, rd, regions, prov, i, w, buf, stdout,
                  log, prev >>

\* mainWithError, lines 64-67: the login request
Login ==
  /\ pc = "login"
  /\ \E resp \in LoginResponses :
       LET r == getWattTimeAccessToken(resp)
       IN  /\ log' = Append(log, Ev("login", 0, << >>, 0, 0, resp))
           /\ IF IsErr(r.err) THEN Abort(r.err) /\ token' = token
              ELSE pc' = "load" /\ err' = err /\ token' = r.val
  /\ UNCHANGED << run, env, file, rd, regions, prov, i, w, buf, stdout, prev >>

\* mainWithError line 69 and loadRegions lines 296-307: os.Args[1], os.Open
\* and the read of the header line, which gives io.EOF on an empty file
Load ==
  /\ pc = "load"
  /\ IF Len(env.args) = 0
       THEN Panic("os.Args[1]") /\ UNCHANGED << rd, log >>
       ELSE \E opens \in BOOLEAN :
              /\ log' = Append(log, Ev("open", 0, << >>, 0, 0,
                                       Resp(~opens, 0, FALSE, TRUE, << >>)))
              /\ IF ~opens THEN Abort(Err("open", "")) /\ UNCHANGED rd
                 ELSE IF Len(file) = 0 THEN Abort(EOF) /\ UNCHANGED rd
                 ELSE pc' = "read" /\ err' = err /\ rd' = 2
  /\ UNCHANGED << run, env, token, file, regions, prov, i, w, buf, stdout, prev >>

(***************************************************************************)
(* loadRegions.                                                            *)
(***************************************************************************)
\* csv.Reader.Read on a line: FieldsPerRecord is 0, so the header line sets the
\* expected count, and a line of another count comes with a *csv.ParseError
\* that wraps csv.ErrFieldCount
ReadError(record) ==
  IF Len(record) # Len(file[1]) THEN ParseError(ErrFieldCount) ELSE NoErr

\* line 314: err == csv.ErrFieldCount
IsFieldCount(e) == e = ErrFieldCount

\* the test of line 322 inverted
HasCoordinatesInverted(record) == record[7] = EmptyText /\ record[8] = EmptyText
\* line 322: record[6] != "" && record[7] != ""
HasCoordinates(record) == record[7] # EmptyText /\ record[8] # EmptyText

\* lines 332-341: the text sent to the geocoder
GeocodeQuery(record) ==
  LET cloudProvider == record[1]
      locationOverride == record[4]
      location == IF locationOverride # << >> THEN locationOverride ELSE record[3]
  IN  IF locationOverride = << >> /\ cloudProvider = awsCloudProvider
        THEN parseAWSLocation(location)
        ELSE [panic |-> FALSE, val |-> location]

\* lines 349-360
NewRegion(record, latitude, longitude) ==
  [ CloudProvider |-> record[1],
    CloudRegion |-> record[2],
    Location |-> record[3],
    LocationOverride |-> record[4],
    LocationSource |-> record[5],
    LocationType |-> record[6],
    Latitude |-> latitude,
    Longitude |-> longitude,
    ElectricityMapsZone |-> record[9],
    WattTimeRegion |-> record[10] ]

\* lines 349-361: the region is appended; the loop goes on to the next line
Accept(record, latitude, longitude, how) ==
  /\ regions' = Append(regions, NewRegion(record, latitude, longitude))
  /\ prov' = Append(prov, [ row |-> rd - 1, geo |-> how,
                            zone |-> IF record[9] # "" THEN "input" ELSE "none",
                            wt |-> IF record[10] # "" THEN "input" ELSE "none" ])
  /\ rd' = rd + 1
  /\ UNCHANGED << pc, err >>

\* loadRegions, lines 311-362: one turn of the loop on a line of the file
ReadRow ==
  /\ pc = "read"
  /\ rd <= Len(file)
  /\ LET record == file[rd]
         readErr == ReadError(record)
     IN  IF IsErr(readErr)
           THEN IF IsFieldCount(readErr)
                  THEN rd' = rd + 1 /\ UNCHANGED << pc, err, regions, prov, log >>
                  ELSE pc' = "enrich" /\ UNCHANGED << rd, err, regions, prov, log >>
         ELSE IF HasCoordinates(record)
           THEN LET la == ParseFloat(record[7])
                    lo == ParseFloat(record[8])
                IN  IF IsErr(la.err)
                      THEN Abort(la.err) /\ UNCHANGED << rd, regions, prov, log >>
                    ELSE IF IsErr(lo.err)
                      THEN Abort(lo.err) /\ UNCHANGED << rd, regions, prov, log >>
                    ELSE Accept(record, la.val, lo.val, "input") /\ UNCHANGED log
         ELSE LET q == GeocodeQuery(record)
              IN  IF q.panic
                    THEN Panic("split[1]")
                         /\ UNCHANGED << rd, regions, prov, log >>
                    ELSE \E resp \in GeoResponses :
                           LET g == getGeolocation(resp)
                           IN  /\ log' = Append(log, Ev("geocode", rd - 1, q.val,
                                                        0, 0, resp))
                               /\ IF IsErr(g.err)
                                    THEN Abort(g.err)
                                         /\ UNCHANGED << rd, regions, prov >>
                                    ELSE Accept(record, g.lat, g.lon,
                                                IF Len(resp.value) = 1
                                                  THEN "found" ELSE "nodata")
  /\ UNCHANGED << run, env, token, file, i, w, buf, stdout, prev >>

\* loadRegions, lines 312-318 and 364: Read returns io.EOF at the end of the file
ReadEnd ==
  /\ pc = "read"
  /\ rd > Len(file)
  /\ pc' = "enrich"
  /\ UNCHANGED << run, env, err, token, file, rd, regions, prov, i, w, buf,
                  stdout, log, prev >>

(***************************************************************************)
(* The enrich loop.                                                        *)
(***************************************************************************)
\* the lookup made whatever the field holds
NeedsZoneAlways(region) == TRUE
\* line 75
NeedsZone(region) == region.ElectricityMapsZone = ""

\* the lookup made whatever the field holds
NeedsRegionAlways(region) == TRUE
\* the test of line 82 inverted
NeedsRegionInverted(region) == region.WattTimeRegion # ""
\* line 82
NeedsRegion(region) == region.WattTimeRegion = ""

\* how a lookup left the field
Outcome(resp, val) ==
  IF resp.status = StatusNotFound THEN "notfound"
  ELSE IF resp.readerr \/ ~resp.valid THEN "undecoded"
  ELSE IF val = "" THEN "empty"
  ELSE "found"

\* mainWithError, lines 74-93: one turn of the loop on regions[i]
EnrichRow ==
  /\ pc = "enrich"
  /\ i <= Len(regions)
  /\ \E zr \in ZoneResponses, wr \in RegionResponses :
       LET region == regions[i]
           nz == NeedsZone(region)
           z == getElectricityMapsZone(zr)
           zfail == nz /\ IsErr(z.err)
           r1 == IF nz /\ ~zfail
                   THEN [region EXCEPT !.ElectricityMapsZone = z.val] ELSE region
           nw == ~zfail /\ NeedsRegion(r1)
           wt == getWattTimeRegion(wr)
           wfail == nw /\ IsErr(wt.err)
           r2 == IF nw /\ ~wfail
                   THEN [r1 EXCEPT !.WattTimeRegion = wt.val] ELSE r1
           zlog == IF nz
                     THEN << Ev("zone", i, << >>, region.Latitude,
                                region.Longitude, zr) >>
                     ELSE << >>
           wlog == IF nw
                     THEN << Ev("region", i, << >>, region.Latitude,
                                region.Longitude, wr) >>
                     ELSE << >>
       IN  /\ log' = log \o zlog \o wlog
           /\ IF zfail THEN Abort(z.err) /\ UNCHANGED << regions, prov, i >>
              ELSE IF wfail THEN Abort(wt.err) /\ UNCHANGED << regions, prov, i >>
              ELSE /\ regions' = [regions EXCEPT ![i] = r2]
                   /\ prov' = [prov EXCEPT
                        ![i].zone = IF nz THEN Outcome(zr, z.val) ELSE @,
                        ![i].wt = IF nw THEN Outcome(wr, wt.val) ELSE @]
                   /\ i' = i + 1
                   /\ UNCHANGED << pc, err >>
  /\ UNCHANGED << run, env, token, file, rd, w, buf, stdout, prev >>

(***************************************************************************)
(* The output.  csv.NewWriter(os.Stdout) buffers what is written; a write  *)
(* that does not fit flushes the buffer to standard output first, and a    *)
(* write to standard output may fail after writing a part.                 *)
(***************************************************************************)
\* lines 102-113
Serialize(region) ==
  << region.CloudProvider, region.CloudRegion, region.Location,
     region.LocationOverride, region.LocationSource, region.LocationType,
     FormatF(region.Latitude), FormatF(region.Longitude),
     region.ElectricityMapsZone, region.WattTimeRegion >>

\* mainWithError, lines 95-99, once the enrich loop is over
WriteHeader ==
  /\ pc = "enrich"
  /\ i > Len(regions)
  /\ buf' = << header >>
  /\ w' = 1
  /\ pc' = "write"
  /\ UNCHANGED << run, env, err, token, file, rd, regions, prov, i, stdout,
                  log, prev >>

\* the buffer is written to standard output, which takes n of its lines
FlushBuffer(n) ==
  /\ stdout' = stdout \o SubSeq(buf, 1, n)
  /\ n < Len(buf) => /\ Abort(Err("write", ""))
                     /\ buf' = SubSeq(buf, n + 1, Len(buf))

\* mainWithError, lines 101-117: one turn of the loop on regions[w]
WriteRow ==
  /\ pc = "write"
  /\ w <= Len(regions)
  /\ LET record == Serialize(regions[w])
     IN  IF Len(buf) + 1 > BufSize
           THEN \E n \in 0..Len(buf) :
                  /\ FlushBuffer(n)
                  /\ IF n < Len(buf) THEN w' = w
                     ELSE buf' = << record >> /\ w' = w + 1 /\ UNCHANGED << pc, err >>
           ELSE /\ buf' = Append(buf, record)
                /\ w' = w + 1
                /\ UNCHANGED << pc, err, stdout >>
  /\ UNCHANGED << run, env, token, file, rd, regions, prov, i, log, prev >>

\* mainWithError, lines 119-125: writer.Flush and writer.Error
Flush ==
  /\ pc = "write"
  /\ w > Len(regions)
  /\ \E n \in 0..Len(buf) :
       /\ FlushBuffer(n)
       /\ n = Len(buf) => buf' = << >> /\ pc' = "done" /\ err' = err
  /\ UNCHANGED << run, env, token, file, rd, regions, prov, i, w, log, prev >>

(***************************************************************************)
(* The program is run again on what it printed.                            *)
(***************************************************************************)
\* every response body of this run was read and decoded
Decoded == \A n \in 1..Len(log) : ~log[n].bad

\* every data line of the input has the field count of the header
WellFormedFile == \A j \in 2..Len(file) : Len(file[j]) = Len(file[1])

Rerun ==
  /\ pc = "done"
  /\ run < MaxRuns
  /\ run' = run + 1
  /\ prev' = [out |-> stdout, prov |-> prov,
              clean |-> prev.clean /\ Decoded /\ WellFormedFile]
  /\ pc' = "start"
  /\ err' = NoErr
  /\ token' = ""
  /\ file' = stdout
  /\ rd' = 1
  /\ regions' = << >>
  /\ prov' = << >>
  /\ i' = 1
  /\ w' = 1
  /\ buf' = << >>
  /\ stdout' = << >>
  /\ log' = << >>
  /\ UNCHANGED env

Next ==
  \/ CheckEnv
  \/ Login
  \/ Load
  \/ ReadRow
  \/ ReadEnd
  \/ EnrichRow
  \/ WriteHeader
  \/ WriteRow
  \/ Flush

NextRerun ==
  \/ Next
  \/ Rerun

\* one run of the program on any input file
Spec == Init /\ [][Next]_vars

\* runs of the program, each on what the run before it printed
SpecRerun == InitRerun /\ [][NextRerun]_vars

(***************************************************************************)
(* What the claims speak about.                                            *)
(***************************************************************************)
\* the requests of kind op made for row r
Calls(op, r) == { n \in 1..Len(log) : log[n].op = op /\ log[n].row = r }

\* the input line the k-th region was read from
InputOf(k) == file[prov[k].row + 1]

\* the lines the writer has been given so far: printed or still buffered
Written == stdout \o buf

\* the run has ended with an error or a panic
Failed == pc \in { "aborted", "panicked" }

\* a request that failed: no answer, or a status the caller takes as an error
FailedRequest(e) ==
  \/ e.neterr
  \/ e.op \in { "login", "geocode" } /\ e.status # StatusOK
  \/ e.op \in { "zone", "region" } /\ e.status \notin { StatusOK, StatusNotFound }

IsPrefix(a, b) == Len(a) <= Len(b) /\ SubSeq(b, 1, Len(a)) = a

\* the header and every region, as the write loop prints them
AllLines == << header >> \o [k \in 1..Len(regions) |-> Serialize(regions[k])]

(***************************************************************************)
(* C1: in the enrich loop the zone lookup is made for a row exactly when   *)
(* the row's zone is empty in the input, the region lookup exactly when    *)
(* its region is empty, each at most once; a zone or region that is not    *)
(* empty in the input is in the region record and in the written line.     *)
(* (Exactly when: for the rows the loop has finished; only when: always.)  *)
(***************************************************************************)
C1_LookupIffEmpty ==
  \A k \in 1..Len(regions) :
    LET inZone == InputOf(k)[9]
        inRegion == InputOf(k)[10]
    IN  /\ Cardinality(Calls("zone", k)) <= 1
        /\ Cardinality(Calls("region", k)) <= 1
        /\ Calls("zone", k) # {} => inZone = ""
        /\ Calls("region", k) # {} => inRegion = ""
        /\ k < i => /\ (Calls("zone", k) # {} <=> inZone = "")
                    /\ (Calls("region", k) # {} <=> inRegion = "")
        /\ inZone # "" =>
             /\ regions[k].ElectricityMapsZone = inZone
             /\ Len(Written) > k => Written[k + 1][9] = inZone
        /\ inRegion # "" =>
             /\ regions[k].WattTimeRegion = inRegion
             /\ Len(Written) > k => Written[k + 1][10] = inRegion

\* a finished run that kept an input zone, looked the region of that row up,
\* and kept an input region of another row whose zone it looked up
C1_Witness ==
  /\ pc = "done"
  /\ \E k \in 1..Len(regions) :
       /\ InputOf(k)[9] = "DE"
       /\ stdout[k + 1][9] = "DE"
       /\ Calls("zone", k) = {}
       /\ Calls("region", k) # {}
  /\ \E k \in 1..Len(regions) :
       /\ InputOf(k)[10] = "CAISO"
       /\ stdout[k + 1][10] = "CAISO"
       /\ Calls("zone", k) # {}
       /\ Calls("region", k) = {}

(***************************************************************************)
(* C7: a row whose latitude and longitude are both non-empty is never      *)
(* geocoded, and its region carries the parsed values, which the written   *)
(* line prints; a geocoding request is made only for a row with an empty   *)
(* coordinate field, at most once.                                         *)
(***************************************************************************)
C7_StoredCoordinatesAuthoritative ==
  /\ \A j \in 1..(Len(file) - 1) :
       /\ Cardinality(Calls("geocode", j)) <= 1
       /\ Calls("geocode", j) # {} =>
            file[j + 1][7] = EmptyText \/ file[j + 1][8] = EmptyText
  /\ \A k \in 1..Len(regions) :
       LET la == InputOf(k)[7]
           lo == InputOf(k)[8]
       IN  (la # EmptyText /\ lo # EmptyText) =>
             /\ Calls("geocode", prov[k].row) = {}
             /\ regions[k].Latitude = ParseFloat(la).val
             /\ regions[k].Longitude = ParseFloat(lo).val
             /\ Len(Written) > k =>
                  /\ Written[k + 1][7] = FormatF(ParseFloat(la).val)
                  /\ Written[k + 1][8] = FormatF(ParseFloat(lo).val)

\* a finished run with a row that came with coordinates and a row that was
\* geocoded because its longitude was empty
C7_Witness ==
  /\ pc = "done"
  /\ \E k \in 1..Len(regions) :
       /\ InputOf(k)[7] = NumText(17, 7)
       /\ InputOf(k)[8] = NumText(-23, 7)
       /\ stdout[k + 1][7] = NumText(20, 6)
       /\ stdout[k + 1][8] = NumText(-20, 6)
  /\ \E k \in 1..Len(regions) :
       /\ InputOf(k)[7] # EmptyText
       /\ InputOf(k)[8] = EmptyText
       /\ Calls("geocode", prov[k].row) # {}

(***************************************************************************)
(* C3 as stated: whenever the run has failed, whatever step failed (a      *)
(* write of a row and the final flush included), nothing has been printed, *)
(* neither the header nor a row.  (Stated for the runs that read every     *)
(* line of the input and decoded every response body.)                     *)
(***************************************************************************)
C3_NoOutputOnAnyFailure ==
  (Failed /\ Decoded /\ WellFormedFile) => stdout = << >>

(***************************************************************************)
(* C3 as amended: a failed request (login, open, geocoder, zone or region  *)
(* lookup: a transport error or a status the caller does not accept) is    *)
(* the last request made, the run has ended there, and no request is made  *)
(* twice; a run that failed before the output phase has printed nothing    *)
(* and has given the writer nothing; a run that failed while writing has   *)
(* printed a proper prefix of the header and the rows.                     *)
(***************************************************************************)
C3_NoOutputBeforeEmit ==
  /\ \A n \in 1..Len(log) :
       /\ FailedRequest(log[n]) => n = Len(log) /\ Failed
       /\ Cardinality(Calls(log[n].op, log[n].row)) = 1
  /\ (Failed /\ err.kind # "write") => stdout = << >> /\ buf = << >>
  /\ (Failed /\ err.kind = "write") =>
       /\ IsPrefix(stdout, AllLines)
       /\ Len(stdout) < Len(AllLines)

\* a run that loaded two rows, enriched the first and failed on a 500 of the
\* zone lookup of the second
C3_Witness ==
  /\ pc = "aborted"
  /\ Len(regions) = 2
  /\ i = 2
  /\ log[Len(log)].op = "zone"
  /\ log[Len(log)].status = 500
  /\ stdout = << >>

(***************************************************************************)
(* C4: a zone or region lookup answered 404 returns "" and no error: the   *)
(* run does not end there, the field stays empty, the loop goes on to the  *)
(* next lookup and the next row, and a run that ends successfully has      *)
(* printed the header and every loaded row, the field empty.               *)
(***************************************************************************)
C4_NotFoundContinues ==
  /\ \A n \in 1..Len(log) :
       LET e == log[n]
       IN  /\ (e.op = "zone" /\ ~e.neterr /\ e.status = StatusNotFound) =>
                \/ e.row < i /\ prov[e.row].zone = "notfound"
                             /\ regions[e.row].ElectricityMapsZone = ""
                \/ n < Len(log) /\ log[n + 1].op = "region"
                                /\ log[n + 1].row = e.row
           /\ (e.op = "region" /\ ~e.neterr /\ e.status = StatusNotFound) =>
                /\ e.row < i
                /\ prov[e.row].wt = "notfound"
                /\ regions[e.row].WattTimeRegion = ""
  /\ pc = "done" => stdout = AllLines

\* a finished run of two rows whose first row got 404 from both lookups
C4_Witness ==
  /\ pc = "done"
  /\ Len(regions) = 2
  /\ prov[1].zone = "notfound"
  /\ prov[1].wt = "notfound"
  /\ Calls("zone", 2) # {}
  /\ Len(stdout) = 3
  /\ stdout[2][9] = ""
  /\ stdout[2][10] = ""

(***************************************************************************)
(* C6: a run that ends successfully has printed one row for every input    *)
(* row of the right field count and none for the others, in the order of   *)
(* the input.  (Stated for the runs that decoded every response body.)     *)
(***************************************************************************)
WellFormedRows == SelectSeq(Tail(file), LAMBDA r : Len(r) = Len(header))

C6_EveryWellFormedRowWritten ==
  (pc = "done" /\ Decoded) =>
    /\ Len(stdout) = 1 + Len(WellFormedRows)
    /\ \A k \in 1..Len(WellFormedRows) :
         SubSeq(stdout[k + 1], 1, 6) = SubSeq(WellFormedRows[k], 1, 6)

(***************************************************************************)
(* C8: with a credential or the input path missing, the run ends before    *)
(* any request is made or file opened and prints nothing, and the error    *)
(* for a missing credential names the environment variable.                *)
(***************************************************************************)
MissingVariable ==
  IF env.apiKey = "" THEN electricityMapsAPIKeyEnvVar
  ELSE IF env.user = "" THEN wattTimeUserEnvVar
  ELSE IF env.password = "" THEN wattTimePasswordEnvVar
  ELSE ""

C8_ConfigErrorsBeforeIO ==
  (MissingVariable # "" \/ Len(env.args) = 0) =>
    /\ log = << >>
    /\ stdout = << >>
    /\ pc \notin { "load", "read", "enrich", "write", "done" }
    /\ (pc = "aborted" /\ MissingVariable # "") => err = EnvVarError(MissingVariable)

(***************************************************************************)
(* C9: the geocoder is asked for the text between the first "(" and a      *)
(* trailing ")" of the location of an AWS row without override, for the    *)
(* override or the location as it stands otherwise, and a location         *)
(* without a parenthesis does not crash the run.  (Stated for the runs     *)
(* that read every line of the input and decoded every response body.)     *)
(***************************************************************************)
C9_AWSNormalizationTotal ==
  (Decoded /\ WellFormedFile) =>
    /\ ~(pc = "panicked" /\ err.arg = "split[1]")
    /\ \A n \in 1..Len(log) :
         log[n].op = "geocode" =>
           LET record == file[log[n].row + 1]
           IN  log[n].q =
                 IF record[4] # << >> THEN record[4]
                 ELSE IF record[1] # awsCloudProvider THEN record[3]
                 ELSE IF record[3] = << "E", " ", "(", "V", ")" >> THEN << "V" >>
                 ELSE << >>

(***************************************************************************)
(* C10: a success status whose body cannot be read or is not JSON, from    *)
(* any of the four endpoints, ends the run with an error.                  *)
(***************************************************************************)
C10_ParseErrorsFatal ==
  \A n \in 1..Len(log) :
    log[n].bad =>
      n = Len(log) /\ pc = "aborted"

(***************************************************************************)
(* Runs on the output of the run before.  Line k + 1 of the input is the   *)
(* line the previous run printed for its k-th region.                      *)
(***************************************************************************)
\* the lookups (geocoder, zone, region) this run has made
Lookups == { n \in 1..Len(log) : log[n].op \in { "geocode", "zone", "region" } }

\* the previous run left no zone and no region empty
AllPopulated(lines) ==
  \A k \in 2..Len(lines) : lines[k][9] # "" /\ lines[k][10] # ""

(***************************************************************************)
(* C2 as stated: a run on the output of a successful run makes no          *)
(* geocoding, zone or region request, and prints what that run printed.    *)
(* (Stated for the runs that read every line of the input and decoded      *)
(* every response body.)                                                   *)
(***************************************************************************)
C2_RerunNoLookups ==
  (run > 1 /\ prev.clean /\ Decoded) =>
    /\ Lookups = {}
    /\ pc = "done" => stdout = prev.out

(***************************************************************************)
(* C2 as amended: a run on the output of a successful run makes no         *)
(* geocoding request, and a zone or region request only for a row whose    *)
(* zone or region that output left empty; when it ends successfully it     *)
(* prints the same lines but for the zones and regions that were empty;    *)
(* so when the output left no zone and no region empty the run makes no    *)
(* lookup and prints the same lines.                                       *)
(***************************************************************************)
C2_RerunLooksUpOnlyEmpty ==
  run > 1 =>
    /\ \A n \in 1..Len(log) :
         /\ log[n].op # "geocode"
         /\ log[n].op = "zone" => prev.out[log[n].row + 1][9] = ""
         /\ log[n].op = "region" => prev.out[log[n].row + 1][10] = ""
    /\ pc = "done" =>
         /\ Len(stdout) = Len(prev.out)
         /\ \A k \in 1..Len(stdout) :
              /\ SubSeq(stdout[k], 1, 8) = SubSeq(prev.out[k], 1, 8)
              /\ prev.out[k][9] # "" => stdout[k][9] = prev.out[k][9]
              /\ prev.out[k][10] # "" => stdout[k][10] = prev.out[k][10]
    /\ AllPopulated(prev.out) =>
         /\ Lookups = {}
         /\ pc = "done" => stdout = prev.out

\* a second run that has finished, on an output with a row and no empty zone
\* or region, whose coordinates were geocoded by the first run
C2_Witness ==
  /\ run = 2
  /\ pc = "done"
  /\ Len(prev.out) = 2
  /\ AllPopulated(prev.out)
  /\ prev.prov[1].geo = "found"
  /\ stdout = prev.out
  /\ Lookups = {}

(***************************************************************************)
(* C5 as stated: what the previous run could not resolve (coordinates the  *)
(* geocoder had no single candidate for, a zone or a region the provider   *)
(* answered 404 for) is resolved again by a run on its output.  (Stated   *)
(* for the runs that read every line of the input and decoded every        *)
(* response body.)                                                         *)
(***************************************************************************)
C5_NoDataResolvedAgain ==
  (run > 1 /\ prev.clean /\ Decoded) =>
    \A k \in 1..Len(regions) :
      LET was == prev.prov[prov[k].row]
      IN  /\ was.geo = "nodata" => Calls("geocode", prov[k].row) # {}
          /\ (k < i /\ was.zone = "notfound") => Calls("zone", k) # {}
          /\ (k < i /\ was.wt = "notfound") => Calls("region", k) # {}

(***************************************************************************)
(* C5 as amended: a zone or a region the provider answered 404 for is      *)
(* printed empty and looked up again by a run on the output; coordinates   *)
(* the geocoder had no single candidate for are printed as 0.000000, which *)
(* a run on the output reads as the row's coordinates and does not geocode *)
(* again.                                                                  *)
(***************************************************************************)
C5_NotFoundLookedUpAgain ==
  run > 1 =>
    \A k \in 1..Len(regions) :
      LET was == prev.prov[prov[k].row]
      IN  /\ was.geo = "nodata" =>
               /\ InputOf(k)[7] = NumText(0, 6)
               /\ InputOf(k)[8] = NumText(0, 6)
               /\ Calls("geocode", prov[k].row) = {}
               /\ regions[k].Latitude = 0
               /\ regions[k].Longitude = 0
          /\ was.zone = "notfound" =>
               /\ InputOf(k)[9] = ""
               /\ k < i => Calls("zone", k) # {}
          /\ was.wt = "notfound" =>
               /\ InputOf(k)[10] = ""
               /\ k < i => Calls("region", k) # {}

\* a second run that has enriched a row for which the first run got no
\* candidate from the geocoder and 404 from both providers
C5_Witness ==
  /\ run = 2
  /\ Len(regions) = 1
  /\ i = 2
  /\ prev.prov[1].geo = "nodata"
  /\ prev.prov[1].zone = "notfound"
  /\ prev.prov[1].wt = "notfound"
  /\ Calls("zone", 1) # {}
  /\ Calls("region", 1) # {}
  /\ Calls("geocode", 1) = {}

====
